---- MODULE Spec2Model ----
(***************************************************************************)
(* A model of the bucketed open-addressing hash table of src/src/hash.rs   *)
(* (LinearProbe, RobinHood and Hopscotch collision resolution, growth by   *)
(* doubling the bucket size or the bucket number) and of the hash          *)
(* equi-join of src/src/join.rs that is built on it.                       *)
(*                                                                         *)
(* A table is a record; insert, extend and the probe strategies are        *)
(* operators on such records, translated statement by statement.  The      *)
(* recursion of the code (insert -> extend -> insert, insert -> insert)    *)
(* is kept; a call chain deeper than MaxDepth ends in the error state      *)
(* "stack" (the process has aborted, no table is left).                    *)
(***************************************************************************)
EXTENDS Integers, Sequences, FiniteSets, TLC

VARIABLES
    table,        \* the HashTable (of the program, or of the join operator)
    hash,         \* the hash family: the hash value of every field
    inserted,     \* history: per key, the sum of the counts passed to insert
    ret,          \* what the last public call returned
    left_child,   \* HashEqJoin.left_child
    right_child,  \* HashEqJoin.right_child
    res,          \* the vector join() is building
    pc,           \* number of calls made so far
    open,         \* HashEqJoin.open
    scenario      \* the scripted run in progress: its name and the keys to insert

vars == <<table, hash, inserted, ret, left_child, right_child, res, pc, open, scenario>>

----------------------------------------------------------------------------
(* Bounds of the model *)

\* number of public calls (insert, get_value) in one behaviour
MaxCalls == 3
\* number of calls of join() on one operator
MaxJoins == 2
\* deepest chain of nested insert calls that is followed
MaxDepth == 4
\* longest left and right input of the join
MaxTuples == 2
\* number of OpIterator calls on one join operator
MaxIterCalls == 2

(* Fields are IntField(0) and IntField(1); IntField(0) is Field::default() *)
Fields == {0, 1}

(* hash values the hash family may give a field *)
HashValues == {0, 11, 21, 104}

Keys == Fields \X Fields

(* the counts passed to insert: every call of insert in the repository passes 1 *)
(* (join.rs:53 and the tests); larger values arise by accumulation             *)
Counts == {1}

HashScheme == {"LinearProbe", "RobinHood", "Hopscotch"}

ExtendOption == {"ExtendBucketSize", "ExtendBucketNumber"}

(* load factors as exact fractions <<numerator, denominator>>; all three are *)
(* exactly representable as f64, so the f64 product and floor are exact      *)
LoadFactors == {<<1, 2>>, <<3, 4>>, <<1, 1>>}

(* initial geometries <<b_size, b_num, h>> *)
Geometries == {<<2, 1, 2>>, <<4, 1, 2>>, <<4, 2, 4>>}

----------------------------------------------------------------------------
(* Data *)

\* stands for usize::MAX: larger than every distance and bucket size here
UsizeMax == 2147483647

Min(S) == CHOOSE x \in S : \A y \in S : x <= y

Max(S) == CHOOSE x \in S : \A y \in S : x >= y

Pow2(n) == 2 ^ n

\* (x & (1 << n)) != 0
BitSet(x, n) == (x \div Pow2(n)) % 2 = 1

\* x | (1 << n)
OrBit(x, n) == IF BitSet(x, n) THEN x ELSE x + Pow2(n)

DefaultKey == <<0, 0>>

DefaultNode == [key |-> DefaultKey, value |-> 0, taken |-> FALSE, dis |-> UsizeMax]

None == [some |-> FALSE]

Some(v) == [some |-> TRUE, val |-> v]

\* new that starts every slot at displacement 0
NewTable_zero_dis(b_size, b_num, sche, h, op, load_f) ==
    [ buckets       |-> [b \in 0..(b_num - 1) |->
                            [s \in 0..(b_size - 1) |-> [DefaultNode EXCEPT !.dis = 0]]],
      taken_count   |-> [b \in 0..(b_num - 1) |-> 0],
      BUCKET_NUMBER |-> b_num,
      BUCKET_SIZE   |-> b_size,
      scheme        |-> sche,
      H             |-> h,
      extend_op     |-> op,
      hop_info      |-> [b \in 0..(b_num - 1) |-> [s \in 0..(b_size - 1) |-> 0]],
      load_factor   |-> load_f,
      err           |-> "none" ]

NewTable(b_size, b_num, sche, h, op, load_f) ==
    [ buckets       |-> [b \in 0..(b_num - 1) |-> [s \in 0..(b_size - 1) |-> DefaultNode]],
      taken_count   |-> [b \in 0..(b_num - 1) |-> 0],
      BUCKET_NUMBER |-> b_num,
      BUCKET_SIZE   |-> b_size,
      scheme        |-> sche,
      H             |-> h,
      extend_op     |-> op,
      hop_info      |-> [b \in 0..(b_num - 1) |-> [s \in 0..(b_size - 1) |-> 0]],
      load_factor   |-> load_f,
      err           |-> "none" ]

\* the table has not been lost to an abort
Alive(t) == t.err = "none"

\* the process aborts: the table is gone, only the reason is kept
Abort(t, why) == [err |-> why]

----------------------------------------------------------------------------
(* Home coordinates *)

\* (key.0.hash() % 10 + key.1.hash() % 10) % BUCKET_NUMBER
BucketOf(t, key) == ((hash[key[1]] % 10) + (hash[key[2]] % 10)) % t.BUCKET_NUMBER

\* (key.0.hash() / 10 + key.1.hash() / 100) % BUCKET_SIZE
HomeOf(t, key) == ((hash[key[1]] \div 10) + (hash[key[2]] \div 100)) % t.BUCKET_SIZE

get_bucket_index(t, key) ==
    LET bucket_index == BucketOf(t, key)
    IN  IF t.taken_count[bucket_index] >= t.BUCKET_SIZE
        THEN None
        ELSE Some(bucket_index)

----------------------------------------------------------------------------
(* Probe strategies *)

\* linear_probe that stops at slots that are not taken only
linear_probe_free_only(t, key, target_bucket_index, index) ==
    LET S == t.BUCKET_SIZE
        slot(j) == t.buckets[target_bucket_index][(index + j) % S]
        stops == {j \in 0..(S - 1) : ~slot(j).taken}
    IN  IF stops = {} THEN (index + S) % S ELSE (index + Min(stops)) % S

linear_probe(t, key, target_bucket_index, index) ==
    LET S == t.BUCKET_SIZE
        slot(j) == t.buckets[target_bucket_index][(index + j) % S]
        stops == {j \in 0..(S - 1) : ~slot(j).taken \/ slot(j).key = key}
    IN  IF stops = {} THEN (index + S) % S ELSE (index + Min(stops)) % S

\* robin_hood that stops only at an occupant two or more steps nearer its home
robin_hood_late(t, key, bucket_index, ori_index) ==
    LET S == t.BUCKET_SIZE
        slot(j) == t.buckets[bucket_index][(ori_index + j) % S]
        stops == {j \in 0..(S - 1) :
                     \/ ~slot(j).taken
                     \/ slot(j).key = key
                     \/ j > slot(j).dis + 1}
    IN  IF stops = {}
        THEN <<(ori_index + S) % S, S>>
        ELSE <<(ori_index + Min(stops)) % S, Min(stops)>>

\* robin_hood that also stops at an occupant whose displacement equals the step
robin_hood_ge(t, key, bucket_index, ori_index) ==
    LET S == t.BUCKET_SIZE
        slot(j) == t.buckets[bucket_index][(ori_index + j) % S]
        stops == {j \in 0..(S - 1) :
                     \/ ~slot(j).taken
                     \/ slot(j).key = key
                     \/ j >= slot(j).dis}
    IN  IF stops = {}
        THEN <<(ori_index + S) % S, S>>
        ELSE <<(ori_index + Min(stops)) % S, Min(stops)>>

\* robin_hood that never stops at an occupant with a smaller displacement
robin_hood_no_steal(t, key, bucket_index, ori_index) ==
    LET S == t.BUCKET_SIZE
        slot(j) == t.buckets[bucket_index][(ori_index + j) % S]
        stops == {j \in 0..(S - 1) : ~slot(j).taken \/ slot(j).key = key}
    IN  IF stops = {}
        THEN <<(ori_index + S) % S, S>>
        ELSE <<(ori_index + Min(stops)) % S, Min(stops)>>

robin_hood(t, key, bucket_index, ori_index) ==
    LET S == t.BUCKET_SIZE
        slot(j) == t.buckets[bucket_index][(ori_index + j) % S]
        stops == {j \in 0..(S - 1) :
                     \/ ~slot(j).taken
                     \/ slot(j).key = key
                     \/ j > slot(j).dis}
    IN  IF stops = {}
        THEN <<(ori_index + S) % S, S>>
        ELSE <<(ori_index + Min(stops)) % S, Min(stops)>>

get_indexes(t, key) ==
    LET bi == get_bucket_index(t, key)
    IN  IF ~bi.some THEN None
        ELSE
        LET bucket_index == bi.val
            home == HomeOf(t, key)
        IN  IF t.buckets[bucket_index][home].taken /\ t.scheme = "Hopscotch"
            THEN Some(<<bucket_index, home, 0>>)
            ELSE IF t.buckets[bucket_index][home].taken /\ t.scheme = "RobinHood"
            THEN LET r == robin_hood(t, key, bucket_index, home)
                 IN  Some(<<bucket_index, r[1], r[2]>>)
            ELSE
            LET index == IF t.buckets[bucket_index][home].taken
                         THEN linear_probe(t, key, bucket_index, home)
                         ELSE home
                node == t.buckets[bucket_index][index]
            IN  IF node.taken /\ (node.key[1] # key[1] \/ node.key[2] # key[2])
                THEN None
                ELSE Some(<<bucket_index, index, 0>>)

get_value(t, key) ==
    LET ix == get_indexes(t, key)
    IN  IF ~ix.some THEN None
        ELSE IF t.scheme = "Hopscotch"
        THEN LET b == ix.val[1]
                 i == ix.val[2]
                 hits == {n \in 0..(t.H - 1) :
                            /\ BitSet(t.hop_info[b][i], n)
                            /\ t.buckets[b][i + (t.H - 1 - n)].key[1] # key[1]
                            /\ t.buckets[b][i + (t.H - 1 - n)].key[2] # key[2]}
             IN  IF hits = {} THEN None
                 ELSE Some(t.buckets[b][i + (t.H - 1 - Max(hits))].value)
        ELSE Some(t.buckets[ix.val[1]][ix.val[2]].value)

----------------------------------------------------------------------------
(* insert, hopscotch_insert and extend call each other.  d is the number   *)
(* of calls of insert that are on the stack.                               *)

RECURSIVE insert(_, _, _, _)
RECURSIVE extend(_, _)
RECURSIVE load_loop(_, _, _, _, _, _)
RECURSIVE reinsert(_, _, _, _)
RECURSIVE bubble(_, _, _, _, _, _, _)

\* a threshold one above the floor
Threshold_plus_one(t) == (t.BUCKET_SIZE * t.load_factor[1]) \div t.load_factor[2] + 1

\* (self.BUCKET_SIZE as f64 * self.load_factor).floor() as usize
Threshold(t) == (t.BUCKET_SIZE * t.load_factor[1]) \div t.load_factor[2]

\* self.extend(); self.insert(new_key.clone(), new_value); return
extend_and_retry(t, new_key, new_value, d) ==
    insert(extend(t, d), new_key, new_value, d + 1)

\* hopscotch_place that leaves taken_count alone
hopscotch_place_no_count(t, new_key, new_value, bucket_index, index, i) ==
    [t EXCEPT
        !.buckets[bucket_index][i] =
            [key |-> new_key, value |-> new_value, taken |-> TRUE, dis |-> 0],
        !.hop_info[bucket_index][index] = OrBit(@, t.H - 1 - (i - index))]

\* hopscotch_place that numbers the hop bits from the other end
hopscotch_place_low_bit(t, new_key, new_value, bucket_index, index, i) ==
    [t EXCEPT
        !.buckets[bucket_index][i] =
            [key |-> new_key, value |-> new_value, taken |-> TRUE, dis |-> 0],
        !.hop_info[bucket_index][index] = OrBit(@, i - index),
        !.taken_count[bucket_index] = @ + 1]

\* put the new entry in the empty slot i of the neighbourhood of index
hopscotch_place(t, new_key, new_value, bucket_index, index, i) ==
    [t EXCEPT
        !.buckets[bucket_index][i] =
            [key |-> new_key, value |-> new_value, taken |-> TRUE, dis |-> 0],
        !.hop_info[bucket_index][index] = OrBit(@, t.H - 1 - (i - index)),
        !.taken_count[bucket_index] = @ + 1]

\* bubble that leaves the bit of the moved entry set in the hop bitmap
bubble_keep_bit(t, new_key, new_value, bucket_index, index, empty_index, d) ==
    LET H == t.H
        start_index == IF empty_index >= H - 1 THEN empty_index - (H - 1) ELSE 0
        candidates == {c \in start_index..(start_index + H - 1) :
                          t.hop_info[bucket_index][c] > 0}
    IN  IF candidates = {}
        THEN extend_and_retry(t, new_key, new_value, d)
        ELSE
        LET candidate_index == Min(candidates)
            bits == {n \in 0..(H - 1) : BitSet(t.hop_info[bucket_index][candidate_index], n)}
        IN  IF bits = {}
            THEN Abort(t, "hang")
            ELSE
            LET n == Max(bits)
                target == candidate_index + (H - 1 - n)
            IN  IF target >= empty_index
                THEN extend_and_retry(t, new_key, new_value, d)
                ELSE
                LET moved == [t EXCEPT
                        !.buckets[bucket_index][empty_index] =
                            [t.buckets[bucket_index][target] EXCEPT !.taken = TRUE],
                        !.buckets[bucket_index][target] = DefaultNode,
                        !.hop_info[bucket_index][candidate_index] =
                            @ + Pow2(H - 1 - (empty_index - candidate_index))]
                IN  IF target - index < H
                    THEN hopscotch_place(moved, new_key, new_value, bucket_index, index, target)
                    ELSE bubble(moved, new_key, new_value, bucket_index, index, target, d)

\* bubble that clears the slot of the moved entry without copying the entry
bubble_lose_moved(t, new_key, new_value, bucket_index, index, empty_index, d) ==
    LET H == t.H
        start_index == IF empty_index >= H - 1 THEN empty_index - (H - 1) ELSE 0
        candidates == {c \in start_index..(start_index + H - 1) :
                          t.hop_info[bucket_index][c] > 0}
    IN  IF candidates = {}
        THEN extend_and_retry(t, new_key, new_value, d)
        ELSE
        LET candidate_index == Min(candidates)
            bits == {n \in 0..(H - 1) : BitSet(t.hop_info[bucket_index][candidate_index], n)}
        IN  IF bits = {}
            THEN Abort(t, "hang")
            ELSE
            LET n == Max(bits)
                target == candidate_index + (H - 1 - n)
            IN  IF target >= empty_index
                THEN extend_and_retry(t, new_key, new_value, d)
                ELSE
                LET moved == [t EXCEPT
                        !.buckets[bucket_index][target] = DefaultNode,
                        !.hop_info[bucket_index][candidate_index] =
                            (@ - Pow2(n)) + Pow2(H - 1 - (empty_index - candidate_index))]
                IN  IF target - index < H
                    THEN hopscotch_place(moved, new_key, new_value, bucket_index, index, target)
                    ELSE bubble(moved, new_key, new_value, bucket_index, index, target, d)

\* one pass of the loop 'inner: move the empty slot towards the neighbourhood
bubble(t, new_key, new_value, bucket_index, index, empty_index, d) ==
    LET H == t.H
        start_index == IF empty_index >= H - 1 THEN empty_index - (H - 1) ELSE 0
        candidates == {c \in start_index..(start_index + H - 1) :
                          t.hop_info[bucket_index][c] > 0}
    IN  IF candidates = {}
        THEN extend_and_retry(t, new_key, new_value, d)
        ELSE
        LET candidate_index == Min(candidates)
            bits == {n \in 0..(H - 1) : BitSet(t.hop_info[bucket_index][candidate_index], n)}
        IN  IF bits = {}
            THEN Abort(t, "hang")   \* no bit below H: the loop repeats unchanged
            ELSE
            LET n == Max(bits)
                target == candidate_index + (H - 1 - n)
            IN  IF target >= empty_index
                THEN extend_and_retry(t, new_key, new_value, d)
                ELSE
                LET moved == [t EXCEPT
                        !.buckets[bucket_index][empty_index] =
                            [t.buckets[bucket_index][target] EXCEPT !.taken = TRUE],
                        !.buckets[bucket_index][target] = DefaultNode,
                        !.hop_info[bucket_index][candidate_index] =
                            (@ - Pow2(n)) + Pow2(H - 1 - (empty_index - candidate_index))]
                IN  IF target - index < H
                    THEN hopscotch_place(moved, new_key, new_value, bucket_index, index, target)
                    ELSE bubble(moved, new_key, new_value, bucket_index, index, target, d)

hopscotch_insert(t, new_key, new_value, bucket_index, index, d) ==
    IF t.hop_info[bucket_index][index] >= t.H * t.H
    THEN extend_and_retry(t, new_key, new_value, d)
    ELSE
    LET end_of_H == Min({index + t.H, t.BUCKET_SIZE})
        hood == {i \in index..(end_of_H - 1) :
                    \/ t.buckets[bucket_index][i].taken = FALSE
                    \/ t.buckets[bucket_index][i].key = new_key}
        empties == {e \in end_of_H..(t.BUCKET_SIZE - 1) :
                    t.buckets[bucket_index][e].taken = FALSE}
    IN  IF hood # {}
        THEN LET i == Min(hood)
             IN  IF t.buckets[bucket_index][i].taken = FALSE
                 THEN hopscotch_place(t, new_key, new_value, bucket_index, index, i)
                 ELSE [t EXCEPT !.buckets[bucket_index][i].value = @ + new_value]
        ELSE IF empties = {}
        THEN extend_and_retry(t, new_key, new_value, d)
        ELSE bubble(t, new_key, new_value, bucket_index, index, Min(empties), d)

\* the loop "for i in 0..self.BUCKET_NUMBER" at the head of insert, from
\* iteration i on; the range is fixed (n) when the loop starts, the table it
\* reads is the current one.  Iterations that find no loaded bucket do nothing.
load_loop(t, new_key, new_value, i, n, d) ==
    IF ~Alive(t) THEN t
    ELSE LET loaded == {j \in i..(n - 1) : Threshold(t) <= t.taken_count[j]}
         IN  IF loaded = {} THEN t
             ELSE load_loop(extend_and_retry(t, new_key, new_value, d),
                            new_key, new_value, Min(loaded) + 1, n, d)

\* insert_body that overwrites the occupant of a stolen slot and drops it
insert_body_drop_displaced(t, new_key, new_value, d) ==
    LET ix == get_indexes(t, new_key)
    IN  IF ~ix.some
        THEN extend_and_retry(t, new_key, new_value, d)
        ELSE
        LET b == ix.val[1]
            i == ix.val[2]
        IN  IF t.scheme = "Hopscotch"
            THEN hopscotch_insert(t, new_key, new_value, b, i, d)
            ELSE IF t.buckets[b][i].key = new_key
            THEN [t EXCEPT !.buckets[b][i].value = @ + new_value]
            ELSE IF t.buckets[b][i].taken = FALSE
            THEN [t EXCEPT
                    !.buckets[b][i] = [key |-> new_key, value |-> new_value,
                                       taken |-> TRUE, dis |-> ix.val[3]],
                    !.taken_count[b] = @ + 1]
            ELSE [t EXCEPT
                    !.buckets[b][i] = [key |-> new_key, value |-> new_value,
                                       taken |-> TRUE, dis |-> ix.val[3]]]

\* the part of insert after the load-factor loop
insert_body(t, new_key, new_value, d) ==
    LET ix == get_indexes(t, new_key)
    IN  IF ~ix.some
        THEN extend_and_retry(t, new_key, new_value, d)
        ELSE
        LET b == ix.val[1]
            i == ix.val[2]
        IN  IF t.scheme = "Hopscotch"
            THEN hopscotch_insert(t, new_key, new_value, b, i, d)
            ELSE IF t.buckets[b][i].key = new_key
            THEN [t EXCEPT !.buckets[b][i].value = @ + new_value]
            ELSE IF t.buckets[b][i].taken = FALSE
            THEN [t EXCEPT
                    !.buckets[b][i] = [key |-> new_key, value |-> new_value,
                                       taken |-> TRUE, dis |-> ix.val[3]],
                    !.taken_count[b] = @ + 1]
            ELSE LET ori_node == t.buckets[b][i]
                 IN  insert([t EXCEPT
                               !.buckets[b][i] = [key |-> new_key, value |-> new_value,
                                                  taken |-> TRUE, dis |-> ix.val[3]]],
                            ori_node.key, ori_node.value, d + 1)

insert(t, new_key, new_value, d) ==
    IF ~Alive(t) THEN t
    ELSE IF d > MaxDepth THEN Abort(t, "stack")
    ELSE LET loaded == load_loop(t, new_key, new_value, 0, t.BUCKET_NUMBER, d)
         IN  IF ~Alive(loaded) THEN loaded
             ELSE insert_body(loaded, new_key, new_value, d)

\* the positions b * BUCKET_SIZE + s of the taken slots
TakenPositions(t) ==
    {pos \in 0..(t.BUCKET_NUMBER * t.BUCKET_SIZE - 1) :
        t.buckets[pos \div t.BUCKET_SIZE][pos % t.BUCKET_SIZE].taken}

\* the loop of extend over the old table's slots, in storage order, from
\* position pos on; slots that are not taken are skipped
reinsert(old, new_self, pos, d) ==
    IF ~Alive(new_self) THEN new_self
    ELSE LET rest == {q \in TakenPositions(old) : q >= pos}
         IN  IF rest = {} THEN new_self
             ELSE LET q == Min(rest)
                      node == old.buckets[q \div old.BUCKET_SIZE][q % old.BUCKET_SIZE]
                  IN  reinsert(old, insert(new_self, node.key, node.value, d + 1), q + 1, d)

extend(t, d) ==
    IF ~Alive(t) THEN t
    ELSE LET new_self ==
                IF t.extend_op = "ExtendBucketSize"
                THEN NewTable(t.BUCKET_SIZE * 2, t.BUCKET_NUMBER, t.scheme, t.H,
                              t.extend_op, t.load_factor)
                ELSE NewTable(t.BUCKET_SIZE, t.BUCKET_NUMBER * 2, t.scheme, t.H,
                              t.extend_op, t.load_factor)
         IN  reinsert(t, new_self, 0, d)

----------------------------------------------------------------------------
(* The table under a sequence of public calls *)

\* HashTable::new with one of the modelled configurations
Configured(t) ==
    \E g \in Geometries, sche \in HashScheme, op \in ExtendOption, lf \in LoadFactors :
        t = NewTable(g[1], g[2], sche, g[3], op, lf)

NoCall == [op |-> "none"]

NoScenario == [name |-> "none", keys |-> <<>>]

Init ==
    /\ hash \in [Fields -> HashValues]
    /\ Configured(table)
    /\ inserted = [k \in Keys |-> 0]
    /\ ret = NoCall
    /\ left_child = <<>>
    /\ right_child = <<>>
    /\ res = <<>>
    /\ pc = 0
    /\ open = FALSE
    /\ scenario = NoScenario

\* table.insert(key, count)
Insert(key, count) ==
    /\ Alive(table)
    /\ pc < MaxCalls
    /\ table' = insert(table, key, count, 0)
    /\ inserted' = [inserted EXCEPT ![key] = @ + count]
    /\ ret' = NoCall
    /\ pc' = pc + 1
    /\ UNCHANGED <<hash, left_child, right_child, res, open, scenario>>

\* a get_value that grows the table when it does not find the key
Lookup_rehash(key) ==
    /\ Alive(table)
    /\ pc < MaxCalls
    /\ ret' = [op |-> "get_value", key |-> key, value |-> get_value(table, key)]
    /\ table' = IF ret'.value = None THEN extend(table, 0) ELSE table
    /\ pc' = pc + 1
    /\ UNCHANGED <<hash, inserted, left_child, right_child, res, open, scenario>>

\* table.get_value(key)
Lookup(key) ==
    /\ Alive(table)
    /\ pc < MaxCalls
    /\ ret' = [op |-> "get_value", key |-> key, value |-> get_value(table, key)]
    /\ pc' = pc + 1
    /\ UNCHANGED <<table, hash, inserted, left_child, right_child, res, open, scenario>>

Next ==
    \/ \E key \in Keys, count \in Counts : Insert(key, count)
    \/ \E key \in Keys : Lookup(key)

Spec == Init /\ [][Next]_vars

----------------------------------------------------------------------------
(* The hash equi-join *)

RECURSIVE build(_, _, _)

\* for tuple in self.left_child.clone() { self.join_hash_table.insert(tuple, 1, ..) }
build(t, tuples, i) ==
    IF i > Len(tuples) THEN t
    ELSE build(insert(t, tuples[i], 1, 0), tuples, i + 1)

\* the test of the probe loop
Matches(t, tuple) == get_value(t, tuple) = Some(1)

\* the second loop of join(): the tuples of the right child that match, in order
probe(t, tuples) == SelectSeq(tuples, LAMBDA tuple : Matches(t, tuple))

Tuples == UNION {[1..n -> Keys] : n \in 0..MaxTuples}

RECURSIVE Occurrences(_, _, _)

Occurrences(tuples, key, i) ==
    IF i > Len(tuples) THEN 0
    ELSE (IF tuples[i] = key THEN 1 ELSE 0) + Occurrences(tuples, key, i + 1)

InitJoin ==
    /\ hash \in [Fields -> HashValues]
    /\ Configured(table)
    /\ inserted = [k \in Keys |-> 0]
    /\ ret = NoCall
    /\ left_child \in Tuples
    /\ right_child \in Tuples
    /\ res = <<>>
    /\ pc = 0
    /\ open = FALSE
    /\ scenario = NoScenario

\* HashEqJoin::join
Join ==
    /\ Alive(table)
    /\ pc < MaxJoins
    /\ table' = build(table, left_child, 1)
    /\ inserted' = [k \in Keys |-> inserted[k] + Occurrences(left_child, k, 1)]
    /\ res' = IF Alive(table') THEN probe(table', right_child) ELSE <<>>
    /\ ret' = [op |-> "join"]
    /\ pc' = pc + 1
    /\ UNCHANGED <<hash, left_child, right_child, open, scenario>>

NextJoin == Join

SpecJoin == InitJoin /\ [][NextJoin]_vars

----------------------------------------------------------------------------
(* Scripted runs: the tables and insert sequences of the tests of hash.rs, *)
(* over four field values, so that ten distinct keys exist                 *)

WideFields == 0..3

WideKeys == WideFields \X WideFields

\* the i-th key of the enumeration (0,0), (0,1), .., (3,3)
KeyAt(i) == <<(i - 1) \div 4, (i - 1) % 4>>

\* a script starts at the first key (the default key) or at the second
ScriptOffsets == {0, 1}

\* n distinct keys, in the order of the enumeration
Script(offset, n) == [i \in 1..n |-> KeyAt(i + offset)]

\* four distinct keys (0,0), (1,1), (2,2), (3,3): each has a field of its own,
\* so that their home slots vary independently
Diagonal == [i \in 1..4 |-> <<i - 1, i - 1>>]

\* six distinct keys: four over the fields 0 and 1, two that start with field 2
Tangle == <<<<0, 0>>, <<0, 1>>, <<1, 0>>, <<2, 3>>, <<2, 0>>, <<1, 1>>>>

\* a slot that test_hopscotch marks taken by hand: value and dis stay default
Preloaded(key) == [key |-> key, value |-> 0, taken |-> TRUE, dis |-> UsizeMax]

\* the field StringField("M") of the keys test_hopscotch writes
FieldM == 9

\* the table test_hopscotch builds before its insert
BubbleTable ==
    LET fresh == NewTable(13, 1, "Hopscotch", 4, "ExtendBucketSize", <<1, 1>>)
        row == [s \in 0..12 |->
                    IF s \in {0, 1, 3, 4, 6, 7, 8, 9, 10, 11} THEN Preloaded(<<FieldM, s>>)
                    ELSE IF s = 5 THEN Preloaded(DefaultKey)
                    ELSE DefaultNode]
        hops == [s \in 0..12 |->
                    IF s \in {3, 7, 9} THEN 4 ELSE IF s = 5 THEN 10 ELSE 0]
    IN  [fresh EXCEPT !.buckets = (0 :> row),
                      !.hop_info = (0 :> hops),
                      !.taken_count = (0 :> 11)]

\* the scripted runs: a name, the keys to insert in order, the starting table
Scenarios ==
    {[name |-> "GrowCapacity", keys |-> Script(o, 4),
      table |-> NewTable(5, 1, sche, 4, "ExtendBucketSize", <<3, 4>>)] :
        o \in ScriptOffsets, sche \in HashScheme}
    \cup
    {[name |-> "GrowBuckets", keys |-> Script(o, 10),
      table |-> NewTable(10, 1, sche, 4, "ExtendBucketNumber", <<9, 10>>)] :
        o \in ScriptOffsets, sche \in HashScheme}
    \cup
    {[name |-> "SplitBuckets", keys |-> Script(o, 4),
      table |-> NewTable(4, 2, sche, 4, "ExtendBucketNumber", <<1, 2>>)] :
        o \in ScriptOffsets, sche \in HashScheme}
    \cup
    {[name |-> "HopscotchBubble", keys |-> Script(o, 1), table |-> BubbleTable] :
        o \in ScriptOffsets}
    \cup
    {[name |-> "RobinHood", keys |-> Script(o, 4),
      table |-> NewTable(4, 1, "RobinHood", 4, "ExtendBucketSize", <<1, 1>>)] :
        o \in ScriptOffsets}
    \cup
    {[name |-> "RobinHoodLoaded", keys |-> Script(o, 4),
      table |-> NewTable(4, 1, "RobinHood", 4, "ExtendBucketSize", <<9, 10>>)] :
        o \in ScriptOffsets}
    \cup
    {[name |-> "NarrowHood", keys |-> Diagonal,
      table |-> NewTable(4, 1, "Hopscotch", 1, "ExtendBucketSize", <<1, 1>>)]}
    \cup
    {[name |-> "LateCandidate", keys |-> Tangle,
      table |-> NewTable(8, 1, "Hopscotch", 4, "ExtendBucketSize", <<1, 1>>)]}
    \cup
    {[name |-> "WideHood", keys |-> Diagonal,
      table |-> NewTable(8, 1, "Hopscotch", 5, "ExtendBucketSize", <<1, 1>>)]}
    \cup
    {[name |-> "Crowded", keys |-> Diagonal,
      table |-> NewTable(5, 1, sche, 2, "ExtendBucketSize", <<1, 1>>)] :
        sche \in HashScheme}

InitScenario ==
    /\ hash \in [WideFields -> HashValues]
    /\ \E sc \in Scenarios :
          /\ scenario = [name |-> sc.name, keys |-> sc.keys]
          /\ table = sc.table
    /\ inserted = [k \in WideKeys |-> 0]
    /\ ret = NoCall
    /\ left_child = <<>>
    /\ right_child = <<>>
    /\ res = <<>>
    /\ pc = 0
    /\ open = FALSE

\* the next insert of the script
ScriptInsert ==
    /\ Alive(table)
    /\ pc < Len(scenario.keys)
    /\ table' = insert(table, scenario.keys[pc + 1], 1, 0)
    /\ inserted' = [inserted EXCEPT ![scenario.keys[pc + 1]] = @ + 1]
    /\ ret' = NoCall
    /\ pc' = pc + 1
    /\ UNCHANGED <<hash, left_child, right_child, res, open, scenario>>

NextScenario == ScriptInsert

SpecScenario == InitScenario /\ [][NextScenario]_vars

----------------------------------------------------------------------------
(* Construction: HashTable::new with any parameters, valid or not *)

\* bucket sizes and bucket numbers passed to new
NewSizes == 0..2

\* neighbourhood sizes passed to new
NewH == {1, 3}

\* load factors passed to new: -0.5, 0.0, 0.5, 1.0, 1.5
NewLoadFactors == {<<-1, 2>>, <<0, 1>>, <<1, 2>>, <<1, 1>>, <<3, 2>>}

\* no table has been constructed yet
Unbuilt == [err |-> "unbuilt"]

InitNew ==
    /\ hash \in [Fields -> HashValues]
    /\ table = Unbuilt
    /\ inserted = [k \in Keys |-> 0]
    /\ ret = NoCall
    /\ left_child = <<>>
    /\ right_child = <<>>
    /\ res = <<>>
    /\ pc = 0
    /\ open = FALSE
    /\ scenario = NoScenario

\* HashTable::new(b_size, b_num, func, sche, h, op, load_f)
New(b_size, b_num, sche, h, op, load_f) ==
    /\ table = Unbuilt
    /\ table' = NewTable(b_size, b_num, sche, h, op, load_f)
    /\ ret' = [op |-> "new", b_size |-> b_size, b_num |-> b_num, sche |-> sche,
               h |-> h, extend_op |-> op, load_f |-> load_f]
    /\ pc' = pc + 1
    /\ UNCHANGED <<hash, inserted, left_child, right_child, res, open, scenario>>

NextNew ==
    \E b_size \in NewSizes, b_num \in NewSizes, sche \in HashScheme, h \in NewH,
       op \in ExtendOption, load_f \in NewLoadFactors :
        New(b_size, b_num, sche, h, op, load_f)

SpecNew == InitNew /\ [][NextNew]_vars

----------------------------------------------------------------------------
(* Home coordinates of 64-bit hashes.  A usize is written as four limbs of *)
(* five decimal digits, most significant first, so that the arithmetic of  *)
(* get_bucket_index and get_indexes is exact on the whole range of u64     *)

\* the base of a limb
Base == 100000

\* usize::MAX = 18446744073709551615
U64Max == <<18446, 74407, 37095, 51615>>

\* field hashes: small values, powers of ten, 2^63, the hash asserted by
\* test_t1ha_hash, usize::MAX - 1 and usize::MAX
WideHashes ==
    {<<0, 0, 0, 0>>, <<0, 0, 0, 9>>, <<0, 0, 0, 10>>, <<0, 0, 0, 99>>,
     <<0, 0, 0, 100>>, <<0, 0, 1, 0>>, <<4348, 53923, 26210, 42483>>,
     <<9223, 37203, 68547, 75808>>, <<18446, 74407, 37095, 51614>>, U64Max}

\* bucket numbers and bucket sizes of the geometries
HomeBuckets == {1, 2, 19, 20, 64}

HomeSizes == {1, 2, 10, 13}

\* x / d for a divisor d below Base
WideDiv(x, d) ==
    LET c1 == x[1]
        c2 == (c1 % d) * Base + x[2]
        c3 == (c2 % d) * Base + x[3]
        c4 == (c3 % d) * Base + x[4]
    IN  <<c1 \div d, c2 \div d, c3 \div d, c4 \div d>>

\* x % m for a modulus m below Base
WideMod(x, m) ==
    LET r1 == x[1] % m
        r2 == (r1 * Base + x[2]) % m
        r3 == (r2 * Base + x[3]) % m
    IN  (r3 * Base + x[4]) % m

\* x + y: the limbs of the sum and the carry out of the top limb
WideAdd(x, y) ==
    LET s4 == x[4] + y[4]
        s3 == x[3] + y[3] + (s4 \div Base)
        s2 == x[2] + y[2] + (s3 \div Base)
        s1 == x[1] + y[1] + (s2 \div Base)
    IN  [limbs |-> <<s1 % Base, s2 % Base, s3 % Base, s4 % Base>>,
         carry |-> s1 \div Base]

\* x <= y
WideLeq(x, y) ==
    \/ x = y
    \/ \E i \in 1..4 : x[i] < y[i] /\ \A j \in 1..(i - 1) : x[j] = y[j]

\* bucket_index_of that keeps two decimal digits of each hash
bucket_index_two_digits(h1, h2, b_num) ==
    (WideMod(h1, 100) + WideMod(h2, 100)) % b_num

\* (key.0.hash() % 10 + key.1.hash() % 10) % self.BUCKET_NUMBER
bucket_index_of(h1, h2, b_num) ==
    (WideMod(h1, 10) + WideMod(h2, 10)) % b_num

\* key.0.hash() / 10 + key.1.hash() / 100, and whether the sum exceeds
\* usize::MAX (the addition then panics or wraps)
home_sum(h1, h2) ==
    LET sum == WideAdd(WideDiv(h1, 10), WideDiv(h2, 100))
    IN  [limbs |-> sum.limbs,
         overflow |-> sum.carry > 0 \/ ~WideLeq(sum.limbs, U64Max)]

\* (key.0.hash() / 10 + key.1.hash() / 100) % self.BUCKET_SIZE
slot_index_of(h1, h2, b_size) == WideMod(home_sum(h1, h2).limbs, b_size)

\* a key whose fields hash to h1 and h2, and a table of b_num buckets of
\* b_size slots
InitHome ==
    /\ hash \in [Fields -> {0}]
    /\ table = Unbuilt
    /\ inserted = [k \in Keys |-> 0]
    /\ \E h1 \in WideHashes, h2 \in WideHashes, b_num \in HomeBuckets, b_size \in HomeSizes :
          ret = [op |-> "key", h1 |-> h1, h2 |-> h2, b_num |-> b_num, b_size |-> b_size]
    /\ left_child = <<>>
    /\ right_child = <<>>
    /\ res = <<>>
    /\ pc = 0
    /\ open = FALSE
    /\ scenario = NoScenario

\* the first lines of get_bucket_index and of get_indexes
Locate ==
    /\ ret.op = "key"
    /\ ret' = [op |-> "locate", h1 |-> ret.h1, h2 |-> ret.h2,
               b_num |-> ret.b_num, b_size |-> ret.b_size,
               bucket_index |-> bucket_index_of(ret.h1, ret.h2, ret.b_num),
               index |-> slot_index_of(ret.h1, ret.h2, ret.b_size),
               overflow |-> home_sum(ret.h1, ret.h2).overflow]
    /\ pc' = pc + 1
    /\ UNCHANGED <<table, hash, inserted, left_child, right_child, res, open, scenario>>

NextHome == Locate

SpecHome == InitHome /\ [][NextHome]_vars

----------------------------------------------------------------------------
(* Serialization: Field::to_bytes *)

\* the longest string serialized
MaxStringLen == 130

\* the fixed width of the string contents in the serialized form
StringWidth == 128

\* IntField(x) for some i32 values, StringField(s) for strings of every
\* length up to MaxStringLen (the letters a, b, c repeated)
SerializedFields ==
    {[kind |-> "IntField", x |-> x] : x \in {-2, -1, 0, 1, 258, 65536}}
    \cup {[kind |-> "StringField", s |-> [i \in 1..n |-> 97 + (i % 3)]] : n \in 0..MaxStringLen}

\* a build with overflow checks (debug) or without (release)
Builds == {"debug", "release"}

\* x.to_le_bytes() for an integer of width bytes
to_le_bytes(x, width) ==
    LET P256 == <<1, 256, 65536, 16777216>>
    IN  [i \in 1..width |-> IF i <= 4 THEN (x \div P256[i]) % 256
                            ELSE IF x < 0 THEN 255 ELSE 0]

\* Field::to_bytes: the bytes returned, or the panic that ends the call.
\* 128 - s_bytes.len() below zero panics in a build with overflow checks and
\* wraps to usize::MAX - (len - 129) otherwise, a length vec! cannot allocate
to_bytes(field, profile) ==
    IF field.kind = "IntField"
    THEN [outcome |-> "Ok", bytes |-> to_le_bytes(field.x, 4)]
    ELSE LET s_len   == Len(field.s)
             result  == to_le_bytes(s_len, 8)
             s_bytes == field.s
         IN  IF s_len <= StringWidth
             THEN LET padding_len == StringWidth - s_len
                      pad == [i \in 1..padding_len |-> 0]
                  IN  [outcome |-> "Ok", bytes |-> result \o (s_bytes \o pad)]
             ELSE IF profile = "debug"
                  THEN [outcome |-> "panic: attempt to subtract with overflow"]
                  ELSE [outcome |-> "panic: capacity overflow",
                        padding_len |-> <<U64Max[1], U64Max[2], U64Max[3],
                                          U64Max[4] - (s_len - StringWidth - 1)>>]

\* a field and a build profile
InitBytes ==
    /\ hash \in [Fields -> {0}]
    /\ table = Unbuilt
    /\ inserted = [k \in Keys |-> 0]
    /\ \E field \in SerializedFields, profile \in Builds :
          ret = [op |-> "field", field |-> field, build |-> profile]
    /\ left_child = <<>>
    /\ right_child = <<>>
    /\ res = <<>>
    /\ pc = 0
    /\ open = FALSE
    /\ scenario = NoScenario

\* field.to_bytes()
ToBytes ==
    /\ ret.op = "field"
    /\ ret' = [op |-> "to_bytes", field |-> ret.field, build |-> ret.build,
               result |-> to_bytes(ret.field, ret.build)]
    /\ pc' = pc + 1
    /\ UNCHANGED <<table, hash, inserted, left_child, right_child, res, open, scenario>>

NextBytes == ToBytes

SpecBytes == InitBytes /\ [][NextBytes]_vars

----------------------------------------------------------------------------
(* The OpIterator life cycle of the join operator *)

\* HashTable::default()
DefaultTable == NewTable(0, 0, "LinearProbe", 4, "ExtendBucketSize", <<9, 10>>)

\* HashEqJoin::new(l_child, r_child, bucket_number, bucket_size): the table is
\* built from the two sizes alone
InitIter ==
    /\ hash \in [Fields -> HashValues]
    /\ \E g \in Geometries :
          table = NewTable(g[1], g[2], "LinearProbe", g[3], "ExtendBucketSize", <<9, 10>>)
    /\ inserted = [k \in Keys |-> 0]
    /\ ret = NoCall
    /\ left_child \in Tuples
    /\ right_child \in Tuples
    /\ res = <<>>
    /\ pc = 0
    /\ open = FALSE
    /\ scenario = NoScenario

\* the process has not panicked and may make another call
Running == pc < MaxIterCalls /\ (IF ret.op = "none" THEN TRUE ELSE ret.outcome = "Ok")

\* what a call returns; prev is the call made before it
Returned(name, value) ==
    [op |-> name, outcome |-> "Ok", value |-> value, prev |-> ret.op]

Panicked(name) ==
    [op |-> name, outcome |-> "panic", value |-> None, prev |-> ret.op]

\* HashEqJoin::open: the body is commented out, Ok(()) is returned
Open ==
    /\ Running
    /\ ret' = Returned("open", None)
    /\ pc' = pc + 1
    /\ UNCHANGED <<table, hash, inserted, left_child, right_child, res, open, scenario>>

\* HashEqJoin::next: res = None; Ok(res)
NextTuple ==
    /\ Running
    /\ ret' = Returned("next", None)
    /\ pc' = pc + 1
    /\ UNCHANGED <<table, hash, inserted, left_child, right_child, res, open, scenario>>

\* HashEqJoin::close
Close ==
    /\ Running
    /\ right_child' = <<>>
    /\ table' = DefaultTable
    /\ open' = FALSE
    /\ ret' = Returned("close", None)
    /\ pc' = pc + 1
    /\ UNCHANGED <<hash, inserted, left_child, res, scenario>>

\* HashEqJoin::rewind: panic unless open, else close() and open()
Rewind ==
    /\ Running
    /\ IF ~open
       THEN /\ ret' = Panicked("rewind")
            /\ UNCHANGED <<table, right_child, open>>
       ELSE /\ right_child' = <<>>
            /\ table' = DefaultTable
            /\ open' = FALSE
            /\ ret' = Returned("rewind", None)
    /\ pc' = pc + 1
    /\ UNCHANGED <<hash, inserted, left_child, res, scenario>>

NextIter == Open \/ NextTuple \/ Close \/ Rewind

SpecIter == InitIter /\ [][NextIter]_vars

----------------------------------------------------------------------------
(* Claims *)

\* C1 (count conservation): a lookup of a key that was inserted with counts
\* c1..cN returns exactly c1 + ... + cN.
C1_CountConservation ==
    (ret.op = "get_value" /\ inserted[ret.key] > 0)
        => ret.value = Some(inserted[ret.key])

\* C2 (no phantom keys): a lookup of a key that was never inserted returns the
\* empty option.
C2_NoPhantomKeys ==
    (ret.op = "get_value" /\ inserted[ret.key] = 0) => ret.value = None

Range(seq) == {seq[i] : i \in 1..Len(seq)}

RECURSIVE IsSubsequence(_, _, _, _)

\* a[i..] can be read off b[j..] from left to right
IsSubsequence(a, i, b, j) ==
    IF i > Len(a) THEN TRUE
    ELSE IF j > Len(b) THEN FALSE
    ELSE IF a[i] = b[j] THEN IsSubsequence(a, i + 1, b, j + 1)
    ELSE IsSubsequence(a, i, b, j + 1)

\* the first call of join() on the operator has returned
JoinReturned == ret.op = "join" /\ pc = 1 /\ Alive(table)

\* C3 (join completeness): join(L, R) emits every tuple of R that occurs in L,
\* as often as it occurs in R.
C3_JoinComplete ==
    JoinReturned =>
        \A k \in Range(left_child) :
            Occurrences(res, k, 1) = Occurrences(right_child, k, 1)

\* C4 (join soundness and order): the result of join(L, R) is a subsequence of
\* R in R's order and every emitted tuple is a tuple of L.
C4_JoinSound ==
    JoinReturned =>
        /\ IsSubsequence(res, 1, right_child, 1)
        /\ Range(res) \subseteq Range(left_child)

\* the slots that hop_info[b][h] names
Named(t, b, h) ==
    {h + j : j \in {i \in 0..(t.H - 1) : BitSet(t.hop_info[b][h], t.H - 1 - i)}}

\* C5 (Hopscotch lookup): get_value(k) looks only at the slots named by the hop
\* bitmap of k's home slot, returns the count of the one that holds k, and
\* returns empty when none of them holds k.
C5_HopscotchLookup ==
    (Alive(table) /\ table.scheme = "Hopscotch" /\ ret.op = "get_value") =>
        LET b == BucketOf(table, ret.key)
            holders == {s \in Named(table, b, HomeOf(table, ret.key)) :
                            table.buckets[b][s].key = ret.key}
        IN  IF holders = {}
            THEN ret.value = None
            ELSE \E s \in holders : ret.value = Some(table.buckets[b][s].value)

\* the number of taken slots of bucket b
TakenIn(t, b) == Cardinality({s \in 0..(t.BUCKET_SIZE - 1) : t.buckets[b][s].taken})

\* C6 (occupancy counter consistency): for every bucket b, taken_count[b] is
\* the number of slots of b with taken = true.
C6_TakenCountConsistent ==
    Alive(table) =>
        \A b \in 0..(table.BUCKET_NUMBER - 1) : table.taken_count[b] = TakenIn(table, b)

\* the table has more slots than any freshly constructed one: it was rehashed
Grown(t) == t.BUCKET_SIZE * t.BUCKET_NUMBER > 8

C6_Witness ==
    /\ Alive(table) /\ Grown(table)
    /\ \E b \in 0..(table.BUCKET_NUMBER - 1) : table.taken_count[b] >= 2

\* the entries of a table: the <<key, value>> of its taken slots
Entries(t) ==
    {<<t.buckets[p \div t.BUCKET_SIZE][p % t.BUCKET_SIZE].key,
       t.buckets[p \div t.BUCKET_SIZE][p % t.BUCKET_SIZE].value>> : p \in TakenPositions(t)}

TotalTaken(t) == Cardinality(TakenPositions(t))

\* some bucket is at the load-factor threshold: the next insert calls extend()
\* on exactly this table
AtThreshold(t) == \E b \in 0..(t.BUCKET_NUMBER - 1) : Threshold(t) <= t.taken_count[b]

\* C7 (rehash preservation): one call of extend() keeps every entry with its
\* count, adds no key and leaves the total number of taken slots unchanged.
C7_RehashPreserves ==
    (Alive(table) /\ AtThreshold(table)) =>
        LET after == extend(table, 0)
        IN  Alive(after) =>
                /\ Entries(after) = Entries(table)
                /\ TotalTaken(after) = TotalTaken(table)

\* C8 (load-factor bound): between operations, for every bucket b,
\* taken_count[b] <= floor(BUCKET_SIZE * load_factor).
C8_LoadFactorBound ==
    Alive(table) =>
        \A b \in 0..(table.BUCKET_NUMBER - 1) :
            table.taken_count[b] * table.load_factor[2]
                <= table.BUCKET_SIZE * table.load_factor[1]

\* a rehashed table with a bucket exactly at the bound
C8_Witness ==
    /\ Alive(table) /\ Grown(table)
    /\ \E b \in 0..(table.BUCKET_NUMBER - 1) :
          /\ table.taken_count[b] * table.load_factor[2]
                <= table.BUCKET_SIZE * table.load_factor[1]
          /\ (table.taken_count[b] + 1) * table.load_factor[2]
                > table.BUCKET_SIZE * table.load_factor[1]

\* the home slots i whose hop bitmap has a bit naming slot j of bucket b
Namers(t, b, j) ==
    {i \in 0..(t.BUCKET_SIZE - 1) :
        i <= j /\ j - i < t.H /\ BitSet(t.hop_info[b][i], t.H - 1 - (j - i))}

\* C9 (Hopscotch neighbourhood invariant): under Hopscotch every taken slot j
\* of bucket b whose key has home slot h has 0 <= j - h < H, the bit
\* (H-1)-(j-h) of hop_info[b][h] is set, no other hop_info[b][i] names slot j,
\* and no hop bit names a slot that is not taken.
C9_HopscotchNeighbourhood ==
    (Alive(table) /\ table.scheme = "Hopscotch") =>
        \A b \in 0..(table.BUCKET_NUMBER - 1) :
            /\ \A j \in 0..(table.BUCKET_SIZE - 1) :
                  table.buckets[b][j].taken =>
                      LET h == HomeOf(table, table.buckets[b][j].key)
                      IN  /\ 0 <= j - h
                          /\ j - h < table.H
                          /\ Namers(table, b, j) = {h}
            /\ \A i \in 0..(table.BUCKET_SIZE - 1) :
                  \A s \in Named(table, b, i) :
                      s < table.BUCKET_SIZE /\ table.buckets[b][s].taken

\* a Hopscotch bucket with two entries of one home slot, one of them off home
C9_Witness ==
    /\ Alive(table) /\ table.scheme = "Hopscotch"
    /\ \E b \in 0..(table.BUCKET_NUMBER - 1), j \in 0..(table.BUCKET_SIZE - 1) :
          /\ table.buckets[b][j].taken
          /\ HomeOf(table, table.buckets[b][j].key) < j
          /\ table.buckets[b][HomeOf(table, table.buckets[b][j].key)].taken

\* the length of the maximal run of taken slots of bucket b that starts at
\* slot s and ends before the end of the bucket
RunLength(t, b, s) ==
    LET S == t.BUCKET_SIZE
        gaps == {j \in 0..(S - 1 - s) : ~t.buckets[b][s + j].taken}
    IN  IF gaps = {} THEN S - s ELSE Min(gaps)

\* slot s of bucket b is the home slot of a key stored in bucket b
IsHomeSlot(t, b, s) ==
    \E j \in 0..(t.BUCKET_SIZE - 1) :
        t.buckets[b][j].taken /\ HomeOf(t, t.buckets[b][j].key) = s

\* C10 as stated (Robin Hood monotonicity): under RobinHood, along any maximal
\* run of consecutive taken slots that starts at some key's home slot, the
\* stored displacements are non-decreasing.
C10_DisNonDecreasing ==
    (Alive(table) /\ table.scheme = "RobinHood") =>
        \A b \in 0..(table.BUCKET_NUMBER - 1), s \in 0..(table.BUCKET_SIZE - 1) :
            IsHomeSlot(table, b, s) =>
                \A j \in 1..(RunLength(table, b, s) - 1) :
                    table.buckets[b][s + j - 1].dis <= table.buckets[b][s + j].dis

\* C10 amended (Robin Hood displacement chain): under RobinHood every taken
\* slot j stores the distance of j from its key's home slot, and a taken slot
\* with dis > 0 follows a taken slot whose dis is at least dis - 1: along a run
\* the displacement rises by at most one per slot, and may fall.
C10_DisChain ==
    (Alive(table) /\ table.scheme = "RobinHood") =>
        \A b \in 0..(table.BUCKET_NUMBER - 1), j \in 0..(table.BUCKET_SIZE - 1) :
            LET S == table.BUCKET_SIZE
                node == table.buckets[b][j]
                prev == table.buckets[b][(j + S - 1) % S]
            IN  node.taken =>
                    /\ node.dis = (j + S - HomeOf(table, node.key)) % S
                    /\ node.dis > 0 => (prev.taken /\ prev.dis >= node.dis - 1)

\* a RobinHood bucket where a displaced entry is followed by one nearer its home
C10_Witness ==
    /\ Alive(table) /\ table.scheme = "RobinHood"
    /\ \E b \in 0..(table.BUCKET_NUMBER - 1), j \in 0..(table.BUCKET_SIZE - 2) :
          /\ table.buckets[b][j].taken /\ table.buckets[b][j + 1].taken
          /\ table.buckets[b][j].dis >= 1
          /\ table.buckets[b][j + 1].dis < table.buckets[b][j].dis

\* C11 (termination of insert): every call of insert on a table with valid
\* parameters returns; the caller never observes an overflow (here: the call
\* chain never exceeds MaxDepth and the bubble loop never repeats unchanged).
C11_InsertTerminates == table.err = "none"

\* C12 (growth step): one call of extend() started by an insert doubles exactly
\* one dimension exactly once (ExtendBucketSize: S' = 2S, B' = B;
\* ExtendBucketNumber: B' = 2B, S' = S) and leaves scheme, H, growth policy and
\* load_factor unchanged.
C12_GrowthStep ==
    (Alive(table) /\ AtThreshold(table)) =>
        LET after == extend(table, 0)
        IN  Alive(after) =>
                /\ table.extend_op = "ExtendBucketSize" =>
                        /\ after.BUCKET_SIZE = 2 * table.BUCKET_SIZE
                        /\ after.BUCKET_NUMBER = table.BUCKET_NUMBER
                /\ table.extend_op = "ExtendBucketNumber" =>
                        /\ after.BUCKET_NUMBER = 2 * table.BUCKET_NUMBER
                        /\ after.BUCKET_SIZE = table.BUCKET_SIZE
                /\ after.scheme = table.scheme
                /\ after.H = table.H
                /\ after.extend_op = table.extend_op
                /\ after.load_factor = table.load_factor

\* C13 (lookup is read-only): a call of get_value, whether it finds the key or
\* not, leaves buckets, taken_count, hop_info, BUCKET_SIZE and BUCKET_NUMBER
\* unchanged.
C13_LookupReadOnly ==
    [][(ret'.op = "get_value" /\ pc' # pc) =>
            /\ table'.buckets = table.buckets
            /\ table'.taken_count = table.taken_count
            /\ table'.hop_info = table.hop_info
            /\ table'.BUCKET_SIZE = table.BUCKET_SIZE
            /\ table'.BUCKET_NUMBER = table.BUCKET_NUMBER]_vars

\* a lookup that found nothing, on a table whose next insert would rehash
C13_Witness ==
    /\ Alive(table) /\ AtThreshold(table)
    /\ ret.op = "get_value" /\ ret.value = None

\* the counts of the taken slots of t that hold key
CountsOf(t, key) ==
    {e[2] : e \in {x \in Entries(t) : x[1] = key}}

\* C14 (entries are never deleted): a key held by a taken slot is still held by
\* a taken slot after a further insert of any key (and the rehashes it
\* triggers), with a count that is not smaller.
C14_NeverDeleted ==
    Alive(table) =>
        \A new_key \in Keys :
            LET after == insert(table, new_key, 1, 0)
            IN  Alive(after) =>
                    \A key \in Keys :
                        \A c \in CountsOf(table, key) :
                            \E c2 \in CountsOf(after, key) : c2 >= c

\* key is held by a taken slot of t
Held(t, key) == CountsOf(t, key) # {}

\* floor(BUCKET_SIZE * load_factor) <= taken_count[b] for some bucket b
SomeBucketLoaded(t) ==
    \E b \in 0..(t.BUCKET_NUMBER - 1) :
        ((t.BUCKET_SIZE * t.load_factor[1]) \div t.load_factor[2]) <= t.taken_count[b]

\* C16 (load-factor rehash trigger): the load-factor loop of insert rehashes
\* exactly when some bucket, the key's own or not, holds at least
\* floor(S * load_factor) entries at the call; with S=5, B=1, load_factor=0.75,
\* ExtendBucketSize the first three inserts of distinct keys do not rehash, the
\* fourth rehashes to S=10, and then taken_count[0] = 4 and no key is lost.
C16_LoadFactorTrigger ==
    /\ Alive(table) =>
          \A key \in WideKeys :
              (load_loop(table, key, 1, 0, table.BUCKET_NUMBER, 0) # table)
                  <=> SomeBucketLoaded(table)
    /\ scenario.name = "GrowCapacity" =>
          /\ pc <= 3 => (Alive(table) /\ table.BUCKET_SIZE = 5)
          /\ pc = 4 =>
                /\ Alive(table)
                /\ table.BUCKET_SIZE = 10
                /\ table.BUCKET_NUMBER = 1
                /\ table.taken_count[0] = 4
                /\ \A i \in 1..4 : Held(table, scenario.keys[i])

\* C17 (GrowBuckets scenario): with B=1, S=10, load_factor=0.9 and
\* ExtendBucketNumber, nine distinct keys leave B = 1, and the tenth insert
\* doubles B to exactly 2 with S still 10 and a total occupancy of 10.
C17_GrowBuckets ==
    scenario.name = "GrowBuckets" =>
        /\ pc = 9 => (Alive(table) /\ table.BUCKET_NUMBER = 1)
        /\ pc = 10 =>
              /\ Alive(table)
              /\ table.BUCKET_NUMBER = 2
              /\ table.BUCKET_SIZE = 10
              /\ TotalTaken(table) = 10

\* the key of the HopscotchBubble script is new and its home slot is 3
BubbleCase ==
    /\ scenario.name = "HopscotchBubble"
    /\ pc = 1
    /\ HomeOf(BubbleTable, scenario.keys[1]) = 3
    /\ ~Held(BubbleTable, scenario.keys[1])

\* C18 (Hopscotch bubble scenario): on the table of the scenario (B=1, S=13,
\* H=4, load_factor=1.0, hop = {3:0100, 5:1010, 7:0100, 9:0100}, slot 12 free)
\* the insert of a new key with home slot 3 does not rehash and ends with slot
\* 12 taken, hop = {3:0110, 5:0011, 7:0001, 9:0001} and taken_count 12.
C18_HopscotchBubble ==
    BubbleCase =>
        /\ Alive(table)
        /\ table.BUCKET_SIZE = 13
        /\ table.BUCKET_NUMBER = 1
        /\ table.buckets[0][12].taken
        /\ table.hop_info[0][3] = 6
        /\ table.hop_info[0][5] = 3
        /\ table.hop_info[0][7] = 1
        /\ table.hop_info[0][9] = 1
        /\ table.taken_count[0] = 12

\* the run of C18 has happened, and the new key is in the neighbourhood of 3
C18_Witness ==
    /\ BubbleCase
    /\ \E s \in 3..6 : table.buckets[0][s].key = scenario.keys[1]

\* four keys with home slots 0, 1, 1, 0 have been inserted in a RobinHood
\* table of one bucket of four slots
RobinHoodCase ==
    /\ scenario.name \in {"RobinHood", "RobinHoodLoaded"}
    /\ pc = 4
    /\ LET t0 == NewTable(4, 1, "RobinHood", 4, "ExtendBucketSize", <<1, 1>>)
       IN  [i \in 1..4 |-> HomeOf(t0, scenario.keys[i])] = <<0, 1, 1, 0>>

InvalidParameters ==
    \/ ret.b_size = 0
    \/ ret.b_num = 0
    \/ ret.h > ret.b_size
    \/ ret.load_f[1] <= 0
    \/ ret.load_f[1] > ret.load_f[2]

\* C15 (configuration errors fail at construction): HashTable::new with bucket
\* size 0, bucket number 0, H > bucket size, load_factor <= 0 or load_factor > 1
\* fails and yields no usable table.
C15_ConfigErrorsFail ==
    (ret.op = "new" /\ InvalidParameters) => ~Alive(table)

\* C20 (lifecycle misuse): next() on a join operator on which open() has not
\* been called panics; it does not return Ok.
C20_NextBeforeOpenPanics ==
    (ret.op = "next" /\ ret.prev = "none") => ret.outcome = "panic"

\* C21 (lifecycle rewind): rewind() called right after open() returned Ok does
\* not panic: it returns Ok and leaves the operator open.
C21_RewindAfterOpen ==
    (ret.op = "rewind" /\ ret.prev = "open") =>
        /\ ret.outcome = "Ok"
        /\ open

\* the count of key in t: the count of the taken slot that holds it, 0 if none
CountOf(t, key) == IF CountsOf(t, key) = {} THEN 0 ELSE Max(CountsOf(t, key))

\* C22 (retry after a load-factor rehash inserts once): when insert(k, c) finds
\* a bucket at or above the threshold, after the call k is held once, with its
\* previous count (0 if absent) plus exactly c.
C22_RetryInsertsOnce ==
    (Alive(table) /\ SomeBucketLoaded(table)) =>
        \A new_key \in Keys :
            LET after == insert(table, new_key, 1, 0)
            IN  Alive(after) =>
                    CountsOf(after, new_key) = {CountOf(table, new_key) + 1}

\* C23 (lookup in a full bucket): get_value(k) of a key k stored in a bucket
\* whose taken_count has reached BUCKET_SIZE returns k's count.
C23_FullBucketLookup ==
    Alive(table) =>
        \A e \in Entries(table) :
            table.taken_count[BucketOf(table, e[1])] = table.BUCKET_SIZE =>
                get_value(table, e[1]) = Some(e[2])

\* the taken slots of t that hold key, as positions b * BUCKET_SIZE + s
SlotsOf(t, key) ==
    {p \in TakenPositions(t) :
        t.buckets[p \div t.BUCKET_SIZE][p % t.BUCKET_SIZE].key = key}

\* the neighbourhood invariant of C9, of a table t
HoodInvariant(t) ==
    \A b \in 0..(t.BUCKET_NUMBER - 1) :
        /\ \A j \in 0..(t.BUCKET_SIZE - 1) :
              t.buckets[b][j].taken =>
                  LET h == HomeOf(t, t.buckets[b][j].key)
                  IN  0 <= j - h /\ j - h < t.H /\ Namers(t, b, j) = {h}
        /\ \A i \in 0..(t.BUCKET_SIZE - 1) :
              \A x \in Named(t, b, i) : x < t.BUCKET_SIZE /\ t.buckets[b][x].taken

\* insert(key, 1) on t reaches hopscotch_insert, which gives up and rehashes:
\* no bucket is loaded, the key gets a home slot, and the table has grown
GivesUp(t, key) ==
    /\ Alive(t) /\ t.scheme = "Hopscotch"
    /\ ~SomeBucketLoaded(t)
    /\ get_indexes(t, key).some
    /\ LET after == insert(t, key, 1, 0)
       IN  /\ Alive(after)
           /\ after.BUCKET_SIZE * after.BUCKET_NUMBER > t.BUCKET_SIZE * t.BUCKET_NUMBER

\* C24 (Hopscotch overflow retry is clean): when hopscotch_insert gives up and
\* rehashes, every other key keeps its slots' number and its count, the new
\* key is held once with its count grown by exactly the inserted count, and
\* the rebuilt table satisfies the neighbourhood invariant.  The table is one
\* that inserts have built (that of test_hopscotch is written by hand).
C24_HopscotchRetryClean ==
    \A new_key \in WideKeys :
        (scenario.name # "HopscotchBubble" /\ GivesUp(table, new_key)) =>
            LET after == insert(table, new_key, 1, 0)
            IN  /\ \A key \in WideKeys \ {new_key} :
                      /\ Cardinality(SlotsOf(after, key)) = Cardinality(SlotsOf(table, key))
                      /\ CountsOf(after, key) = CountsOf(table, key)
                /\ Cardinality(SlotsOf(after, new_key)) = 1
                /\ CountsOf(after, new_key) = {CountOf(table, new_key) + 1}
                /\ HoodInvariant(after)

\* the first pass of the bubble loop of hopscotch_insert(key) on t moves an
\* entry: the neighbourhood of the home slot is full of other keys, a slot
\* after it is empty, and the first hop bitmap that is not 0 among the H slots
\* up to the empty one names a slot before the empty one
BubbleMoves(t, key) ==
    LET ix == get_indexes(t, key)
    IN  /\ ix.some
        /\ LET b == ix.val[1]
               index == ix.val[2]
               end_of_H == Min({index + t.H, t.BUCKET_SIZE})
               empties == {e \in end_of_H..(t.BUCKET_SIZE - 1) : ~t.buckets[b][e].taken}
           IN  /\ \A i \in index..(end_of_H - 1) :
                     t.buckets[b][i].taken /\ t.buckets[b][i].key # key
               /\ empties # {}
               /\ LET e == Min(empties)
                      cands == {c \in (e - (t.H - 1))..e : t.hop_info[b][c] > 0}
                  IN  /\ cands # {}
                      /\ LET c == Min(cands)
                             bits == {n \in 0..(t.H - 1) : BitSet(t.hop_info[b][c], n)}
                         IN  bits # {} /\ c + (t.H - 1 - Max(bits)) < e

\* hopscotch_insert has moved an entry towards the empty slot and then gives
\* up and rehashes
C24_Witness ==
    /\ scenario.name = "Crowded"
    /\ \E new_key \in WideKeys :
          GivesUp(table, new_key) /\ BubbleMoves(table, new_key)

\* no two taken slots of t hold the same key
NoDuplicateKeys(t) ==
    \A p \in TakenPositions(t), q \in TakenPositions(t) :
        p # q =>
            t.buckets[p \div t.BUCKET_SIZE][p % t.BUCKET_SIZE].key
                # t.buckets[q \div t.BUCKET_SIZE][q % t.BUCKET_SIZE].key

\* C25 (no duplicate keys): no key is held by two taken slots, in the table
\* and in the table after one more insert of any key, present or not.
C25_NoDuplicateKeys ==
    Alive(table) =>
        /\ NoDuplicateKeys(table)
        /\ \A new_key \in Keys :
              LET after == insert(table, new_key, 1, 0)
              IN  Alive(after) => NoDuplicateKeys(after)

\* a key that is present has been inserted again, after a rehash
C25_Witness ==
    /\ Alive(table) /\ Grown(table)
    /\ \E key \in Keys : inserted[key] >= 2 /\ Held(table, key)

\* C26 (insert makes the key occupied): for every absent key, the default key
\* (0, 0) included, after insert(k, 1) a taken slot holds k with count 1, and
\* when the table did not grow the taken_count of k's bucket is one larger.
C26_InsertOccupies ==
    Alive(table) =>
        \A new_key \in Keys :
            LET after == insert(table, new_key, 1, 0)
                b == BucketOf(table, new_key)
            IN  (~Held(table, new_key) /\ Alive(after)) =>
                    /\ CountsOf(after, new_key) = {1}
                    /\ (after.BUCKET_SIZE = table.BUCKET_SIZE
                        /\ after.BUCKET_NUMBER = table.BUCKET_NUMBER) =>
                            after.taken_count[b] = table.taken_count[b] + 1

\* the probe of insert(key) on the RobinHood table t stops at a slot taken by
\* another key: no bucket is loaded, and get_indexes returns such a slot
Steals(t, key) ==
    /\ Alive(t) /\ t.scheme = "RobinHood"
    /\ ~SomeBucketLoaded(t)
    /\ LET ix == get_indexes(t, key)
       IN  /\ ix.some
           /\ t.buckets[ix.val[1]][ix.val[2]].taken
           /\ t.buckets[ix.val[1]][ix.val[2]].key # key

\* the Robin Hood displacement of C27, for the insert of new_key into t
Displaces(t, new_key) ==
    LET ix == get_indexes(t, new_key)
        b == ix.val[1]
        i == ix.val[2]
        ori_node == t.buckets[b][i]
        after == insert(t, new_key, 1, 0)
    IN  Alive(after) =>
            /\ ix.val[3] > ori_node.dis
            /\ after.buckets[b][i].key = new_key
            /\ after.buckets[b][i].taken
            /\ after.buckets[b][i].dis = ix.val[3]
            /\ CountsOf(after, new_key) = {1}
            /\ CountsOf(after, ori_node.key) = {ori_node.value}
            /\ after.taken_count[b] = t.taken_count[b] + 1

\* C27 (Robin Hood displacement): when the probe for a new key stops at a slot
\* taken by a different key, whose displacement is then smaller than the probe
\* distance d, insert stores the new key there with dis = d and re-inserts the
\* occupant: both keys are held, the occupant with its count, and the
\* taken_count of the bucket has grown by one.  Stated for the table and for
\* the table after one more insert.
C27_RobinHoodDisplacement ==
    (Alive(table) /\ scenario.name # "HopscotchBubble") =>
        /\ \A new_key \in WideKeys :
              Steals(table, new_key) => Displaces(table, new_key)
        /\ \A key \in WideKeys :
              LET next == insert(table, key, 1, 0)
              IN  \A new_key \in WideKeys :
                      Steals(next, new_key) => Displaces(next, new_key)

\* the fourth key of the RobinHood run is about to take the slot of another
\* key, and the insert returns
C27_Witness ==
    /\ scenario.name = "RobinHood" /\ pc = 3
    /\ Steals(table, scenario.keys[4])
    /\ Alive(insert(table, scenario.keys[4], 1, 0))

\* slot (ori + j) % S of bucket b ends the Robin Hood probe for key at step j:
\* it is not taken, or holds key, or its displacement is smaller than j
EndsProbe(t, key, b, ori, j) ==
    LET node == t.buckets[b][(ori + j) % t.BUCKET_SIZE]
    IN  ~node.taken \/ node.key = key \/ node.dis < j

\* C28 (Robin Hood probe result): robin_hood(key, b, home) returns (slot, d)
\* where slot is home + d modulo S and d is the first step at which the slot
\* is unoccupied, or holds the probe key, or has an occupant whose displacement
\* is strictly smaller than d; an occupant whose displacement equals the step
\* count is passed over.
C28_RobinHoodProbe ==
    Alive(table) =>
        \A key \in WideKeys, b \in 0..(table.BUCKET_NUMBER - 1),
           ori \in 0..(table.BUCKET_SIZE - 1) :
            LET r == robin_hood(table, key, b, ori)
            IN  (\E j \in 0..(table.BUCKET_SIZE - 1) : EndsProbe(table, key, b, ori, j)) =>
                    /\ r[2] \in 0..(table.BUCKET_SIZE - 1)
                    /\ r[1] = (ori + r[2]) % table.BUCKET_SIZE
                    /\ EndsProbe(table, key, b, ori, r[2])
                    /\ \A j \in 0..(r[2] - 1) : ~EndsProbe(table, key, b, ori, j)

\* a probe that passes over an occupant whose displacement equals the step
\* count 1 and stops at the next slot, taken by another key of displacement 1
C28_Witness ==
    /\ Alive(table) /\ table.scheme = "RobinHood"
    /\ \E key \in WideKeys, ori \in 0..(table.BUCKET_SIZE - 1) :
          LET r == robin_hood(table, key, 0, ori)
              passed == table.buckets[0][(ori + 1) % table.BUCKET_SIZE]
              last == table.buckets[0][r[1]]
          IN  /\ r[2] = 2
              /\ passed.taken /\ passed.dis = 1 /\ passed.key # key
              /\ last.taken /\ last.key # key /\ last.dis = 1

\* slot (start + j) % S of bucket b ends the linear probe for key: it is not
\* taken, or holds key
EndsLinear(t, key, b, start, j) ==
    LET node == t.buckets[b][(start + j) % t.BUCKET_SIZE]
    IN  ~node.taken \/ node.key = key

\* every slot of the bucket of key is taken by another key
FullOfOthers(t, key) ==
    \A j \in 0..(t.BUCKET_SIZE - 1) : ~EndsLinear(t, key, BucketOf(t, key), 0, j)

\* C29 (linear probe result): linear_probe(key, b, start) returns the first
\* slot in the cyclic order start, start+1, ... modulo S that is unoccupied or
\* holds the probe key; when all S slots are occupied by other keys the insert
\* obtains no slot from get_indexes, and the table has grown when it returns.
C29_LinearProbe ==
    (Alive(table) /\ table.scheme = "LinearProbe") =>
        \A key \in Keys :
            /\ \A b \in 0..(table.BUCKET_NUMBER - 1), start \in 0..(table.BUCKET_SIZE - 1) :
                  (\E j \in 0..(table.BUCKET_SIZE - 1) : EndsLinear(table, key, b, start, j)) =>
                      \E d \in 0..(table.BUCKET_SIZE - 1) :
                          /\ linear_probe(table, key, b, start) = (start + d) % table.BUCKET_SIZE
                          /\ EndsLinear(table, key, b, start, d)
                          /\ \A j \in 0..(d - 1) : ~EndsLinear(table, key, b, start, j)
            /\ FullOfOthers(table, key) =>
                  /\ get_indexes(table, key) = None
                  /\ LET after == insert(table, key, 1, 0)
                     IN  Alive(after) =>
                            after.BUCKET_SIZE * after.BUCKET_NUMBER
                                > table.BUCKET_SIZE * table.BUCKET_NUMBER

\* a LinearProbe bucket full of other keys, and an insert into it that returns
C29_Witness ==
    /\ Alive(table) /\ table.scheme = "LinearProbe"
    /\ \E key \in Keys :
          /\ FullOfOthers(table, key)
          /\ Alive(insert(table, key, 1, 0))
          /\ \E other \in Keys :
                linear_probe(table, other, BucketOf(table, other), HomeOf(table, other))
                    # HomeOf(table, other)

\* the slots home..home+H-1 of the bucket of key that exist
HoodOf(t, key) ==
    HomeOf(t, key)..(Min({HomeOf(t, key) + t.H, t.BUCKET_SIZE}) - 1)

\* insert(key) on the Hopscotch table t reaches the neighbourhood scan: no
\* bucket is loaded and get_indexes returns the home slot
Scans(t, key) ==
    /\ Alive(t) /\ t.scheme = "Hopscotch"
    /\ ~SomeBucketLoaded(t)
    /\ get_indexes(t, key).some

\* C30 (Hopscotch neighbourhood scan): when a slot of home..home+H-1 holds an
\* equal key, insert adds the count to that slot and changes nothing else;
\* otherwise, when one of them is unoccupied, the key is placed at the first
\* such position pos, bit (H-1)-(pos-home) of hop[home] is set, taken_count
\* grows by one and nothing else changes.
C30_HopscotchScan ==
    scenario.name # "HopscotchBubble" =>
        \A new_key \in WideKeys :
            Scans(table, new_key) =>
                LET b == BucketOf(table, new_key)
                    home == HomeOf(table, new_key)
                    equal == {i \in HoodOf(table, new_key) :
                                 /\ table.buckets[b][i].taken
                                 /\ table.buckets[b][i].key = new_key}
                    free == {i \in HoodOf(table, new_key) : ~table.buckets[b][i].taken}
                    after == insert(table, new_key, 1, 0)
                IN  /\ equal # {} =>
                          after = [table EXCEPT !.buckets[b][Min(equal)].value = @ + 1]
                    /\ (equal = {} /\ free # {}) =>
                          after = [table EXCEPT
                                      !.buckets[b][Min(free)] =
                                          [key |-> new_key, value |-> 1,
                                           taken |-> TRUE, dis |-> 0],
                                      !.hop_info[b][home] =
                                          OrBit(@, table.H - 1 - (Min(free) - home)),
                                      !.taken_count[b] = @ + 1]

RECURSIVE bubble_trace(_, _, _, _)
\* the loop 'inner of hopscotch_insert without what follows it: the table and
\* the empty slot at the moment the loop places the key ("place"), calls
\* extend ("give_up") or repeats unchanged ("hang")
bubble_trace(t, bucket_index, index, empty_index) ==
    LET H == t.H
        start_index == IF empty_index >= H - 1 THEN empty_index - (H - 1) ELSE 0
        candidates == {c \in start_index..(start_index + H - 1) :
                          t.hop_info[bucket_index][c] > 0}
        ends(how) == [table |-> t, empty |-> empty_index, outcome |-> how]
    IN  IF candidates = {} THEN ends("give_up")
        ELSE
        LET candidate_index == Min(candidates)
            bits == {n \in 0..(H - 1) : BitSet(t.hop_info[bucket_index][candidate_index], n)}
        IN  IF bits = {} THEN ends("hang")
            ELSE
            LET n == Max(bits)
                target == candidate_index + (H - 1 - n)
            IN  IF target >= empty_index THEN ends("give_up")
                ELSE
                LET moved == [t EXCEPT
                        !.buckets[bucket_index][empty_index] =
                            [t.buckets[bucket_index][target] EXCEPT !.taken = TRUE],
                        !.buckets[bucket_index][target] = DefaultNode,
                        !.hop_info[bucket_index][candidate_index] =
                            (@ - Pow2(n)) + Pow2(H - 1 - (empty_index - candidate_index))]
                IN  IF target - index < H
                    THEN [table |-> moved, empty |-> target, outcome |-> "place"]
                    ELSE bubble_trace(moved, bucket_index, index, target)

\* insert(key) on t reaches the bubble loop of hopscotch_insert: the slots of
\* the neighbourhood are taken by other keys and a later slot is empty
Bubbles(t, key) ==
    /\ Scans(t, key)
    /\ t.hop_info[BucketOf(t, key)][HomeOf(t, key)] < t.H * t.H
    /\ \A i \in HoodOf(t, key) :
          LET node == t.buckets[BucketOf(t, key)][i]
          IN  node.taken /\ node.key # key
    /\ \E e \in (HomeOf(t, key) + t.H)..(t.BUCKET_SIZE - 1) :
          ~t.buckets[BucketOf(t, key)][e].taken

\* where the bubble loop of insert(key) on t ends
BubbleEnd(t, key) ==
    LET b == BucketOf(t, key)
        empties == {e \in (HomeOf(t, key) + t.H)..(t.BUCKET_SIZE - 1) :
                       ~t.buckets[b][e].taken}
    IN  bubble_trace(t, b, HomeOf(t, key), Min(empties))

\* the slots before empty that are taken and named by the hop bitmap of a
\* candidate slot c in [empty - (H-1), empty) of bucket b
Movable(t, b, empty) ==
    {x \in 0..(empty - 1) :
        /\ t.buckets[b][x].taken
        /\ \E c \in Max({0, empty - (t.H - 1)})..(empty - 1) : x \in Named(t, b, c)}

\* C31 (Hopscotch bubbling gives up only when stuck): the bubble loop calls
\* extend only when no candidate slot in [empty-(H-1), empty) has a hop bit
\* that names a taken slot before empty.
C31_GivesUpOnlyWhenStuck ==
    scenario.name # "HopscotchBubble" =>
        \A new_key \in WideKeys :
            Bubbles(table, new_key) =>
                LET end == BubbleEnd(table, new_key)
                IN  end.outcome = "give_up" =>
                        Movable(end.table, BucketOf(table, new_key), end.empty) = {}

\* insert(key) on t takes the early exit "hop is full" of hopscotch_insert: it
\* ends as extend() and a retry do, although a slot of the neighbourhood is
\* free or holds the key, so that the scan would have ended the insert
FiresEarly(t, key) ==
    /\ Scans(t, key)
    /\ \E i \in HoodOf(t, key) :
          LET node == t.buckets[BucketOf(t, key)][i]
          IN  ~node.taken \/ node.key = key
    /\ insert(t, key, 1, 0) = extend_and_retry(t, key, 1, 0)

\* C32 (Hopscotch 'hop is full' check): the early rehash at the start of
\* hopscotch_insert fires only when all H bits of hop_info[b][home] are set.
C32_HopFullCheck ==
    scenario.name # "HopscotchBubble" =>
        \A new_key \in WideKeys :
            FiresEarly(table, new_key) =>
                table.hop_info[BucketOf(table, new_key)][HomeOf(table, new_key)]
                    = Pow2(table.H) - 1

\* C33 (bounded rehash recursion): when growth cannot relieve the overflow the
\* nested calls of insert and extend are cut off by the table itself, which
\* then reports exhaustion: the chain of calls never runs on, uncut, beyond
\* the depth MaxDepth that is followed here.
C33_RecursionCapped == table.err \in {"none", "exhausted", "hang"}

\* C34 (stored displacement): under every scheme each taken slot j whose key
\* has home slot h stores dis = (j - h) mod S, and each slot that is not taken
\* stores the sentinel usize::MAX.
C34_StoredDisplacement ==
    Alive(table) =>
        \A b \in 0..(table.BUCKET_NUMBER - 1), j \in 0..(table.BUCKET_SIZE - 1) :
            LET node == table.buckets[b][j]
            IN  IF node.taken
                THEN node.dis = (j - HomeOf(table, node.key)) % table.BUCKET_SIZE
                ELSE node.dis = UsizeMax

\* C35 (probe strategies do not mutate): an insert writes nothing before it
\* is decided whether the key is found, placed or overflowed: when the
\* Hopscotch resolution ends in overflow (extend is called), buckets,
\* taken_count and hop_info are still those the insert started with.
C35_ProbesDoNotMutate ==
    scenario.name # "HopscotchBubble" =>
        \A new_key \in WideKeys :
            Bubbles(table, new_key) =>
                LET end == BubbleEnd(table, new_key)
                IN  end.outcome = "give_up" =>
                        /\ end.table.buckets = table.buckets
                        /\ end.table.taken_count = table.taken_count
                        /\ end.table.hop_info = table.hop_info

\* C36 (join is repeatable): a second call of join() on the same operator
\* returns the same sequence of tuples as the first call.
C36_JoinRepeatable ==
    [][(ret.op = "join" /\ ret'.op = "join" /\ pc' = pc + 1
        /\ Alive(table) /\ Alive(table')) => res' = res]_vars

\* C37 (home coordinates are in range): for 64-bit field hashes h1, h2 and a
\* geometry with B >= 1 and S >= 1 the bucket index is below B, the slot index
\* is below S, the sum h1 div 10 + h2 div 100 does not exceed usize::MAX, and
\* the bucket index is at most 18.
C37_HomeInRange ==
    ret.op = "locate" =>
        /\ ret.bucket_index \in 0..(ret.b_num - 1)
        /\ ret.index \in 0..(ret.b_size - 1)
        /\ ~ret.overflow
        /\ ret.bucket_index <= 18

\* both hashes are usize::MAX, the table has more than 19 buckets and more
\* than one slot in a bucket
C37_Witness ==
    /\ ret.op = "locate"
    /\ ret.h1 = U64Max
    /\ ret.h2 = U64Max
    /\ ret.b_num > 19
    /\ ret.b_size > 1

\* C38 (initial state): HashTable::new(S, B, ...) yields exactly B buckets of
\* exactly S slots, every slot unoccupied with the default key, value 0 and
\* displacement usize::MAX, taken_count all 0, hop_info all 0, and the given H,
\* scheme, growth policy and load factor stored unchanged.
C38_InitialState ==
    ret.op = "new" =>
        /\ DOMAIN table.buckets = 0..(ret.b_num - 1)
        /\ \A b \in DOMAIN table.buckets :
              /\ DOMAIN table.buckets[b] = 0..(ret.b_size - 1)
              /\ \A s \in DOMAIN table.buckets[b] :
                    /\ ~table.buckets[b][s].taken
                    /\ table.buckets[b][s].key = DefaultKey
                    /\ table.buckets[b][s].value = 0
                    /\ table.buckets[b][s].dis = UsizeMax
        /\ table.taken_count = [b \in 0..(ret.b_num - 1) |-> 0]
        /\ table.hop_info = [b \in 0..(ret.b_num - 1) |-> [s \in 0..(ret.b_size - 1) |-> 0]]
        /\ table.BUCKET_NUMBER = ret.b_num
        /\ table.BUCKET_SIZE = ret.b_size
        /\ table.H = ret.h
        /\ table.scheme = ret.sche
        /\ table.extend_op = ret.extend_op
        /\ table.load_factor = ret.load_f

\* new has built a table of two buckets of two slots
C38_Witness ==
    /\ ret.op = "new"
    /\ ret.b_num = 2
    /\ ret.b_size = 2
    /\ Cardinality(DOMAIN table.buckets) = 2

\* C39 (string serialization): Field::to_bytes on a string field of any byte
\* length n returns the 8-byte little-endian length followed by exactly 128
\* bytes, the string bytes and then zeros; the call does not panic for any n.
C39_StringToBytes ==
    (ret.op = "to_bytes" /\ ret.field.kind = "StringField") =>
        LET n == Len(ret.field.s)
        IN  /\ ret.result.outcome = "Ok"
            /\ Len(ret.result.bytes) = 8 + StringWidth
            /\ SubSeq(ret.result.bytes, 1, 8) = <<n % 256, n \div 256, 0, 0, 0, 0, 0, 0>>
            /\ \A i \in 1..StringWidth :
                  ret.result.bytes[8 + i] = IF i <= n THEN ret.field.s[i] ELSE 0

====
